---- MODULE Spec2Model ----
(***************************************************************************)
(* A model of the Solc compiler handle of foundry-compilers                *)
(* (src/src/compile/mod.rs): version resolution against the installed and  *)
(* released version lists, the installer and its reporter notifications,   *)
(* the blocking and the async invocation of the solc child process, and    *)
(* the bounded-concurrency batch compile_many.                             *)
(***************************************************************************)
EXTENDS Integers, Sequences, FiniteSets, TLC

\* ---------------------------------------------------------------- bounds
MaxPatch == 1
MaxLen == 3
MaxCalls == 1
MaxOut == 2
MaxJobs == 3
MaxLimit == 2

\* longest stdout of `solc --version`, in tokens
MaxTokens == 5

\* ------------------------------------------------------- semver::Version
\* A version is major.minor.patch plus a pre-release tag; "" is a release.
PreTags == {"", "rc"}

Version(ma, mi, pa, pre) == [major |-> ma, minor |-> mi, patch |-> pa, pre |-> pre]

Versions ==
    {Version(0, mi, pa, pre) : mi \in {7, 8}, pa \in 0..MaxPatch, pre \in PreTags}

\* semver orders a pre-release below the release of the same triple
PreLess(a, b) == a # "" /\ b = ""

VersionLess(a, b) ==
    IF a.major # b.major THEN a.major < b.major
    ELSE IF a.minor # b.minor THEN a.minor < b.minor
    ELSE IF a.patch # b.patch THEN a.patch < b.patch
    ELSE PreLess(a.pre, b.pre)

\* ---------------------------------------------------- semver::VersionReq
\* A requirement is a sequence of comparators, all of which must match.
Ops == {"=", ">", ">=", "<", "<=", "^"}

Comparators == {[op |-> o, v |-> v] : o \in Ops, v \in Versions}

matches_exact(c, ver) ==
    /\ ver.major = c.v.major
    /\ ver.minor = c.v.minor
    /\ ver.patch = c.v.patch
    /\ ver.pre = c.v.pre

matches_greater(c, ver) ==
    IF ver.major # c.v.major THEN ver.major > c.v.major
    ELSE IF ver.minor # c.v.minor THEN ver.minor > c.v.minor
    ELSE IF ver.patch # c.v.patch THEN ver.patch > c.v.patch
    ELSE PreLess(c.v.pre, ver.pre)

matches_less(c, ver) ==
    IF ver.major # c.v.major THEN ver.major < c.v.major
    ELSE IF ver.minor # c.v.minor THEN ver.minor < c.v.minor
    ELSE IF ver.patch # c.v.patch THEN ver.patch < c.v.patch
    ELSE PreLess(ver.pre, c.v.pre)

matches_caret(c, ver) ==
    IF ver.major # c.v.major THEN FALSE
    ELSE IF c.v.major > 0 /\ ver.minor # c.v.minor THEN ver.minor > c.v.minor
    ELSE IF c.v.major > 0 /\ ver.patch # c.v.patch THEN ver.patch > c.v.patch
    ELSE IF c.v.major = 0 /\ c.v.minor > 0 /\ ver.minor # c.v.minor THEN FALSE
    ELSE IF c.v.major = 0 /\ c.v.minor > 0 /\ ver.patch # c.v.patch
        THEN ver.patch > c.v.patch
    ELSE IF c.v.major = 0 /\ c.v.minor = 0
            /\ (ver.minor # c.v.minor \/ ver.patch # c.v.patch) THEN FALSE
    ELSE ~PreLess(ver.pre, c.v.pre)

matches_impl(c, ver) ==
    CASE c.op = "="  -> matches_exact(c, ver)
      [] c.op = ">"  -> matches_greater(c, ver)
      [] c.op = ">=" -> matches_exact(c, ver) \/ matches_greater(c, ver)
      [] c.op = "<"  -> matches_less(c, ver)
      [] c.op = "<=" -> matches_exact(c, ver) \/ matches_less(c, ver)
      [] c.op = "^"  -> matches_caret(c, ver)

\* a pre-release version matches only when some comparator names a
\* pre-release of the same major.minor.patch
pre_is_compatible(c, ver) ==
    /\ c.v.major = ver.major
    /\ c.v.minor = ver.minor
    /\ c.v.patch = ver.patch
    /\ c.v.pre # ""

matches(req, ver) ==
    /\ \A i \in 1..Len(req) : matches_impl(req[i], ver)
    /\ \/ ver.pre = ""
       \/ \E i \in 1..Len(req) : pre_is_compatible(req[i], ver)

\* ------------------------------------------------ sorted version lists
MinVersion(S) == CHOOSE v \in S : \A w \in S : ~VersionLess(w, v)

RECURSIVE SortedSeq(_)
SortedSeq(S) ==
    IF S = {} THEN <<>>
    ELSE LET m == MinVersion(S) IN <<m>> \o SortedSeq(S \ {m})

IsSorted(L) == \A i, j \in 1..Len(L) : i < j => VersionLess(L[i], L[j])

SeqRange(L) == {L[i] : i \in 1..Len(L)}

None == [none |-> TRUE]

\* ----------------------------------- Solc::find_matching_installation
\* versions.iter().rev().find(|v| required_version.matches(v)).cloned()
FirstMatchForward(versions, required_version) ==
    LET hits == {i \in 1..Len(versions) : matches(required_version, versions[i])}
    IN  IF hits = {} THEN None
        ELSE versions[CHOOSE i \in hits : \A j \in hits : i <= j]

find_matching_installation(versions, required_version) ==
    LET hits == {i \in 1..Len(versions) : matches(required_version, versions[i])}
    IN  IF hits = {} THEN None
        ELSE versions[CHOOSE i \in hits : \A j \in hits : j <= i]

\* ------------------------------------------------------------- state
VARIABLES
    \* find_matching_installation applied to drawn inputs
    f_versions,      \* the `versions` slice
    f_required,      \* the `required_version`
    f_found,         \* the returned Option<Version>, Pending before the call
    \* resolver and installer
    cfg_test,        \* whether the crate is built with cfg(test)
    RELEASES,        \* the lazily loaded release list: sorted versions and the flag
    installed,       \* version directories present under the svm home
    lock,            \* holder of the installer lock file
    pc,              \* per thread: position in its call
    op,              \* per thread: the entry point it called
    sol_version,     \* per thread: the requirement given to ensure_installed
    versions_read,   \* per thread: Self::installed_versions() as read by the call
    local_versions,  \* per thread: match in the installed list
    remote_versions, \* per thread: match in RELEASES.1
    target,          \* per thread: version handed to blocking_install / install
    svm_result,      \* per thread: what svm::install returned, Pending before
    report,          \* per thread: notifications emitted by the call's install
    result,          \* per thread: the value the call returned
    calls,           \* per thread: number of calls made
    \* one compile request run through the blocking and the async path
    child,           \* how the solc child process behaves
    sync_output,     \* Solc::compile_output's return value
    sync_result,     \* Solc::compile_as's return value
    async_output,    \* Solc::async_compile_output's return value
    async_result,    \* Solc::async_compile_as's return value
    \* compile_many
    jobs,            \* the (Solc, SolcInput) pairs in submission order
    n,               \* the concurrency limit
    next_job,        \* index of the next job the stream of futures yields
    job_state,       \* per job: "queued", "buffered", "running" or "done"
    job_child,       \* per job: how its solc child process behaves
    invocations,     \* per job: number of async_compile calls made for it
    invoked,         \* per job: what its async_compile call returned
    completed,       \* job indexes in the order their futures completed
    outputs,         \* the collected Vec of (result, solc, input)
    returned,        \* whether compile_many has returned
    \* verify_checksum
    cfg_windows,     \* whether the crate is built with cfg(windows)
    checksums,       \* RELEASES.0: the digest recorded for each released version
    binaries,        \* content of the solc binary under each svm version path
    verify_self,     \* the handle verify_checksum is called on
    verify_result,   \* verify_checksum's return value
    \* configure_cmd
    cmd_self,        \* the handle configure_cmd is called on
    cmd,             \* the Command it built
    \* version_from_output
    probe_output,    \* the Output of `solc --version`
    probe_result,    \* version_from_output's return value
    \* two consecutive ensure_installed calls
    first_result,    \* what the caller's first call returned
    first_report     \* the notifications of the caller's first call

findVars == <<f_versions, f_required, f_found>>

installVars ==
    <<cfg_test, RELEASES, installed, lock, pc, op, sol_version, versions_read,
      local_versions, remote_versions, target, svm_result, report, result, calls>>

compileVars == <<child, sync_output, sync_result, async_output, async_result>>

manyVars ==
    <<jobs, n, next_job, job_state, job_child, invocations, invoked, completed,
      outputs, returned>>

verifyVars == <<cfg_windows, checksums, binaries, verify_self, verify_result>>

cmdVars == <<cmd_self, cmd>>

probeVars == <<probe_output, probe_result>>

twiceVars == <<first_result, first_report>>

restVars == <<verifyVars, cmdVars, probeVars, twiceVars>>

vars == <<findVars, installVars, compileVars, manyVars, restVars>>

\* what the resolver and installer leave alone
notInstallVars == <<findVars, compileVars, manyVars, restVars>>

\* ---------------------------------------------------- drawn inputs
\* ascending lists of at most MaxLen distinct versions
SortedLists ==
    {SortedSeq(S) : S \in {T \in SUBSET Versions : Cardinality(T) <= MaxLen}}

\* one comparator, or a lower and an upper bound as in ">=0.7.0 <0.8.1"
Requirements ==
    {<<c>> : c \in Comparators}
    \cup {<<c, d>> : c \in {x \in Comparators : x.op = ">="},
                     d \in {x \in Comparators : x.op = "<"}}

\* -------------------------------------------- resolver and installer
Threads == {"t1", "t2"}

NoThread == "none"

\* the versions the install directory and the release list range over
InstallVersions ==
    {Version(0, 8, 0, ""), Version(0, 8, 1, "rc"), Version(0, 8, 1, "")}

\* ^0.8.0, =0.8.0, >=0.8.1-rc, <0.8.0
InstallRequirements ==
    { <<[op |-> "^", v |-> Version(0, 8, 0, "")]>>,
      <<[op |-> "=", v |-> Version(0, 8, 0, "")]>>,
      <<[op |-> ">=", v |-> Version(0, 8, 1, "rc")]>>,
      <<[op |-> "<", v |-> Version(0, 8, 0, "")]>> }

\* messages of the errors svm::install can fail with
InstallErrors == {"download failed"}

Ok(v) == [ok |-> TRUE, value |-> v]

Err(kind, msg) == [ok |-> FALSE, kind |-> kind, msg |-> msg]

Pending == [pending |-> TRUE]

\* RELEASES: the parsed release list with its sorted versions, or the
\* default (no versions, flag false) when the list failed to parse
ReleasesLoaded(S) == [versions |-> SortedSeq(S), ok |-> TRUE]

\* a failed load that keeps a list of versions
ReleasesUnusableWithVersions ==
    [versions |-> SortedSeq(InstallVersions), ok |-> FALSE]

\* Default::default() of (svm::Releases, Vec<Version>, bool)
ReleasesDefault == [versions |-> <<>>, ok |-> FALSE]

\* Solc::installed_versions: the version directories under the svm home,
\* sorted by utils::installed_versions
installed_versions(dirs) == SortedSeq(dirs)

\* the reporter calls of install / blocking_install
solc_installation_start(version) == [kind |-> "start", version |-> version]

solc_installation_success(version) == [kind |-> "success", version |-> version]

solc_installation_error(version, msg) ==
    [kind |-> "error", version |-> version, msg |-> msg]

\* ------------------------------------------------ Solc::ensure_installed
\* the match on (local_versions, remote_versions)
PreferRemoteAlways(local, remote) ==
    CASE local # None /\ remote = None -> [act |-> "use", version |-> local]
      [] remote # None -> [act |-> "install", version |-> remote]
      [] OTHER -> [act |-> "fail"]

FailWithoutLocal(local, remote) ==
    CASE local # None /\ remote = None -> [act |-> "use", version |-> local]
      [] local # None /\ remote # None ->
            IF VersionLess(local, remote)
            THEN [act |-> "install", version |-> remote]
            ELSE [act |-> "use", version |-> local]
      [] OTHER -> [act |-> "fail"]

ensure_installed_match(local, remote) ==
    CASE local # None /\ remote = None -> [act |-> "use", version |-> local]
      [] local # None /\ remote # None ->
            IF VersionLess(local, remote)
            THEN [act |-> "install", version |-> remote]
            ELSE [act |-> "use", version |-> local]
      [] local = None /\ remote # None -> [act |-> "install", version |-> remote]
      [] OTHER -> [act |-> "fail"]

\* a thread enters a call: its locals are fresh
Enter(t, name, req, version, at) ==
    /\ pc[t] \in {"idle", "done"}
    /\ calls[t] < MaxCalls
    /\ calls' = [calls EXCEPT ![t] = @ + 1]
    /\ op' = [op EXCEPT ![t] = name]
    /\ sol_version' = [sol_version EXCEPT ![t] = req]
    /\ target' = [target EXCEPT ![t] = version]
    /\ versions_read' = [versions_read EXCEPT ![t] = <<>>]
    /\ local_versions' = [local_versions EXCEPT ![t] = None]
    /\ remote_versions' = [remote_versions EXCEPT ![t] = None]
    /\ svm_result' = [svm_result EXCEPT ![t] = Pending]
    /\ report' = [report EXCEPT ![t] = <<>>]
    /\ result' = [result EXCEPT ![t] = Pending]
    /\ pc' = [pc EXCEPT ![t] = at]
    /\ UNCHANGED <<cfg_test, RELEASES, installed, lock, notInstallVars>>

\* ensure_installed(sol_version): under cfg(test) the installer lock is
\* taken first
CallEnsureInstalled(t, req) ==
    Enter(t, "ensure_installed", req, None, IF cfg_test THEN "lock" ELSE "resolve")

\* take_solc_installer_lock!: lock.write() blocks until the lock is free
TakeLock(t) ==
    /\ pc[t] = "lock"
    /\ lock = NoThread
    /\ lock' = t
    /\ pc' = [pc EXCEPT ![t] = "resolve"]
    /\ UNCHANGED <<cfg_test, RELEASES, installed, op, sol_version, versions_read,
                   local_versions, remote_versions, target, svm_result, report,
                   result, calls, notInstallVars>>

\* load the local / remote versions, match them, and decide
Resolve(t) ==
    /\ pc[t] = "resolve"
    /\ LET vs == installed_versions(installed)
           local == find_matching_installation(vs, sol_version[t])
           remote == find_matching_installation(RELEASES.versions, sol_version[t])
           m == ensure_installed_match(local, remote)
       IN  /\ versions_read' = [versions_read EXCEPT ![t] = vs]
           /\ local_versions' = [local_versions EXCEPT ![t] = local]
           /\ remote_versions' = [remote_versions EXCEPT ![t] = remote]
           /\ CASE m.act = "use" ->
                    /\ result' = [result EXCEPT ![t] = Ok(m.version)]
                    /\ pc' = [pc EXCEPT ![t] = "return"]
                    /\ UNCHANGED target
                [] m.act = "install" ->
                    /\ target' = [target EXCEPT ![t] = m.version]
                    /\ pc' = [pc EXCEPT ![t] = "install"]
                    /\ UNCHANGED result
                [] OTHER ->
                    /\ result' = [result EXCEPT ![t] = Err("VersionNotFound", "")]
                    /\ pc' = [pc EXCEPT ![t] = "return"]
                    /\ UNCHANGED target
    /\ UNCHANGED <<cfg_test, RELEASES, installed, lock, op, sol_version,
                   svm_result, report, calls, notInstallVars>>

\* --------------------------------- Solc::blocking_install, Solc::install
CallBlockingInstall(t, version) ==
    Enter(t, "blocking_install", <<>>, version, "install")

CallInstall(t, version) == Enter(t, "install", <<>>, version, "install")

\* crate::report::solc_installation_start(version), then svm::install begins
InstallStart(t) ==
    /\ pc[t] = "install"
    /\ report' = [report EXCEPT ![t] = Append(@, solc_installation_start(target[t]))]
    /\ pc' = [pc EXCEPT ![t] = "svm_install"]
    /\ UNCHANGED <<cfg_test, RELEASES, installed, lock, op, sol_version,
                   versions_read, local_versions, remote_versions, target,
                   svm_result, result, calls, notInstallVars>>

\* what the entry point returns once its install succeeded
InstallValue(t) ==
    IF op[t] = "ensure_installed" THEN target[t] ELSE [version |-> target[t]]

\* the notification of the match on svm::install's result
ReportSuccessAlways(version, outcome) == solc_installation_success(version)

report_outcome(version, outcome) ==
    IF outcome.ok THEN solc_installation_success(version)
    ELSE solc_installation_error(version, outcome.msg)

\* a failed install answered with the installed match, when there is one
FallBackToLocal(t, outcome) ==
    IF outcome.ok THEN Ok(InstallValue(t))
    ELSE IF local_versions[t] # None THEN Ok(local_versions[t])
    ELSE outcome

\* what the call returns after its install: the value, or with `?` the
\* error of the install
install_return(t, outcome) ==
    IF outcome.ok THEN Ok(InstallValue(t)) ELSE outcome

\* svm::install(version) finished: Ok(path) or Err(err)
SvmInstallDone(t, outcome) ==
    /\ pc[t] = "svm_install"
    /\ svm_result' = [svm_result EXCEPT ![t] = outcome]
    /\ installed' = IF outcome.ok THEN installed \cup {target[t]} ELSE installed
    /\ report' = [report EXCEPT ![t] = Append(@, report_outcome(target[t], outcome))]
    /\ result' = [result EXCEPT ![t] = install_return(t, outcome)]
    /\ pc' = [pc EXCEPT ![t] = "return"]
    /\ UNCHANGED <<cfg_test, RELEASES, lock, op, sol_version, versions_read,
                   local_versions, remote_versions, target, calls, notInstallVars>>

SvmInstallOk(t) == SvmInstallDone(t, Ok("path"))

SvmInstallErr(t, msg) == SvmInstallDone(t, Err("SvmError", msg))

\* the call returns; the lock guard, when held, is dropped
Return(t) ==
    /\ pc[t] = "return"
    /\ lock' = IF lock = t THEN NoThread ELSE lock
    /\ pc' = [pc EXCEPT ![t] = "done"]
    /\ UNCHANGED <<cfg_test, RELEASES, installed, op, sol_version, versions_read,
                   local_versions, remote_versions, target, svm_result, report,
                   result, calls, notInstallVars>>

\* ------------------------------------------------ the solc child process
\* stdout is a short byte string; 0xFF never occurs in valid UTF-8
Bytes == {"{", "}", "x", "0xFF"}

ByteStrings == UNION {[1..k -> Bytes] : k \in 0..MaxOut}

\* the step of an invocation that fails with an I/O or serialization
\* error, if any
Faults == {"none", "spawn", "serialize", "write", "flush", "wait"}

\* exit status 0 is success
Children == [fault : Faults, status : {0, 1}, stdout : ByteStrings]

NoChild == [fault |-> "none", status |-> 0, stdout |-> <<>>]

CompileIdle ==
    /\ child = NoChild
    /\ sync_output = None
    /\ sync_result = None
    /\ async_output = None
    /\ async_result = None

\* ------------------------------------------------------- compile_many
\* the handles and inputs jobs are built from
JobPairs ==
    { [solc |-> "solc-0.8.18", input |-> "a.sol"],
      [solc |-> "solc-0.8.18", input |-> "b.sol"],
      [solc |-> "solc-0.7.6", input |-> "a.sol"] }

ManyIdle ==
    /\ jobs = <<>>
    /\ n = 0
    /\ next_job = 1
    /\ job_state = <<>>
    /\ job_child = <<>>
    /\ invocations = <<>>
    /\ invoked = <<>>
    /\ completed = <<>>
    /\ outputs = <<>>
    /\ returned = TRUE

\* ---------------------------------- the remaining operations, not called
Unit == [unit |-> TRUE]

VerifyIdle ==
    /\ cfg_windows = FALSE
    /\ checksums = <<>>
    /\ binaries = <<>>
    /\ verify_self = None
    /\ verify_result = None

CmdIdle ==
    /\ cmd_self = None
    /\ cmd = None

ProbeIdle ==
    /\ probe_output = None
    /\ probe_result = None

TwiceIdle ==
    /\ first_result = None
    /\ first_report = <<>>

RestIdle ==
    /\ VerifyIdle
    /\ CmdIdle
    /\ ProbeIdle
    /\ TwiceIdle

FindIdle ==
    /\ f_versions = <<>>
    /\ f_required = <<>>
    /\ f_found = None

Init ==
    /\ FindIdle
    /\ CompileIdle
    /\ ManyIdle
    /\ RestIdle
    /\ cfg_test \in BOOLEAN
    /\ RELEASES \in {ReleasesDefault} \cup {ReleasesLoaded(S) : S \in SUBSET InstallVersions}
    /\ installed \in SUBSET InstallVersions
    /\ lock = NoThread
    /\ pc = [t \in Threads |-> "idle"]
    /\ op = [t \in Threads |-> "none"]
    /\ sol_version = [t \in Threads |-> <<>>]
    /\ versions_read = [t \in Threads |-> <<>>]
    /\ local_versions = [t \in Threads |-> None]
    /\ remote_versions = [t \in Threads |-> None]
    /\ target = [t \in Threads |-> None]
    /\ svm_result = [t \in Threads |-> Pending]
    /\ report = [t \in Threads |-> <<>>]
    /\ result = [t \in Threads |-> Pending]
    /\ calls = [t \in Threads |-> 0]

Next ==
    \/ \E t \in Threads, req \in InstallRequirements : CallEnsureInstalled(t, req)
    \/ \E t \in Threads : TakeLock(t)
    \/ \E t \in Threads : Resolve(t)
    \/ \E t \in Threads, v \in InstallVersions : CallBlockingInstall(t, v)
    \/ \E t \in Threads, v \in InstallVersions : CallInstall(t, v)
    \/ \E t \in Threads : InstallStart(t)
    \/ \E t \in Threads : SvmInstallOk(t)
    \/ \E t \in Threads, msg \in InstallErrors : SvmInstallErr(t, msg)
    \/ \E t \in Threads : Return(t)

Spec == Init /\ [][Next]_vars

\* ------------------------- find_matching_installation on drawn inputs
InstallIdle ==
    /\ cfg_test = FALSE
    /\ RELEASES = ReleasesDefault
    /\ installed = {}
    /\ lock = NoThread
    /\ pc = [t \in Threads |-> "idle"]
    /\ op = [t \in Threads |-> "none"]
    /\ sol_version = [t \in Threads |-> <<>>]
    /\ versions_read = [t \in Threads |-> <<>>]
    /\ local_versions = [t \in Threads |-> None]
    /\ remote_versions = [t \in Threads |-> None]
    /\ target = [t \in Threads |-> None]
    /\ svm_result = [t \in Threads |-> Pending]
    /\ report = [t \in Threads |-> <<>>]
    /\ result = [t \in Threads |-> Pending]
    /\ calls = [t \in Threads |-> 0]

InitFind ==
    /\ f_versions \in SortedLists
    /\ f_required \in Requirements
    /\ f_found = Pending
    /\ InstallIdle
    /\ CompileIdle
    /\ ManyIdle
    /\ RestIdle

Find ==
    /\ f_found = Pending
    /\ f_found' = find_matching_installation(f_versions, f_required)
    /\ UNCHANGED <<f_versions, f_required, installVars, compileVars, manyVars,
                   restVars>>

NextFind == Find

SpecFind == InitFind /\ [][NextFind]_vars


\* ------------------------------------------------- invocation engine
\* an invocation that hands back stdout whatever the exit status
StdoutWhateverStatus(output) == Ok(output.stdout)

\* the free function compile_output: stdout on success, else the
\* SolcError built from the captured output
compile_output(output) ==
    IF output.status = 0 THEN Ok(output.stdout)
    ELSE Err("SolcError", output.stdout)

\* Solc::compile_output: spawn, serde_json::to_writer into stdin,
\* wait_with_output, compile_output
Solc_compile_output(c) ==
    CASE c.fault = "spawn" -> Err("Io", "spawn")
      [] c.fault \in {"serialize", "write"} -> Err("SerdeJson", c.fault)
      [] c.fault = "wait" -> Err("Io", "wait")
      [] OTHER -> compile_output(c)

\* Solc::async_compile_output: spawn, serde_json::to_vec, write_all,
\* flush, wait_with_output, compile_output
Solc_async_compile_output(c) ==
    CASE c.fault = "spawn" -> Err("Io", "spawn")
      [] c.fault = "serialize" -> Err("SerdeJson", "serialize")
      [] c.fault \in {"write", "flush", "wait"} -> Err("Io", c.fault)
      [] OTHER -> compile_output(c)

\* std::str::from_utf8
from_utf8(bytes) ==
    IF \E i \in 1..Len(bytes) : bytes[i] = "0xFF" THEN Err("Utf8Error", "")
    ELSE Ok(bytes)

\* the one document that deserializes as the output type D
IsExpectedJson(text) == text = <<"{", "}">>

\* serde_json::from_str
from_str(text) ==
    IF IsExpectedJson(text) THEN Ok([json |-> text]) ELSE Err("SerdeJson", "parse")

\* serde_json::from_slice
from_slice(bytes) ==
    IF IsExpectedJson(bytes) THEN Ok([json |-> bytes]) ELSE Err("SerdeJson", "parse")

\* a compile_as that deserializes the bytes without validating them
CompileAsFromSlice(output) ==
    IF ~output.ok THEN output ELSE from_slice(output.value)

\* Solc::compile_as after compile_output returned `output`
compile_as(output) ==
    IF ~output.ok THEN output
    ELSE LET text == from_utf8(output.value)
         IN  IF ~text.ok THEN Err("InvalidUtf8", "") ELSE from_str(text.value)

\* Solc::async_compile_as after async_compile_output returned `output`
async_compile_as(output) ==
    IF ~output.ok THEN output ELSE from_slice(output.value)

\* Solc::async_compile
async_compile(c) == async_compile_as(Solc_async_compile_output(c))

InitCompile ==
    /\ child \in Children
    /\ sync_output = Pending
    /\ sync_result = Pending
    /\ async_output = Pending
    /\ async_result = Pending
    /\ FindIdle
    /\ InstallIdle
    /\ ManyIdle
    /\ RestIdle

CompileOutput ==
    /\ sync_output = Pending
    /\ sync_output' = Solc_compile_output(child)
    /\ UNCHANGED <<child, sync_result, async_output, async_result, findVars,
                   installVars, manyVars, restVars>>

CompileAs ==
    /\ sync_output # Pending
    /\ sync_result = Pending
    /\ sync_result' = compile_as(sync_output)
    /\ UNCHANGED <<child, sync_output, async_output, async_result, findVars,
                   installVars, manyVars, restVars>>

AsyncCompileOutput ==
    /\ async_output = Pending
    /\ async_output' = Solc_async_compile_output(child)
    /\ UNCHANGED <<child, sync_output, sync_result, async_result, findVars,
                   installVars, manyVars, restVars>>

AsyncCompileAs ==
    /\ async_output # Pending
    /\ async_result = Pending
    /\ async_result' = async_compile_as(async_output)
    /\ UNCHANGED <<child, sync_output, sync_result, async_output, findVars,
                   installVars, manyVars, restVars>>

NextCompile ==
    \/ CompileOutput
    \/ CompileAs
    \/ AsyncCompileOutput
    \/ AsyncCompileAs

SpecCompile == InitCompile /\ [][NextCompile]_vars


\* ------------------------------------------------------ compile_many
\* how the solc child of a batch job may behave: it compiles, it cannot
\* be spawned, or it exits with a non-zero status
ManyChildren ==
    { [fault |-> "none", status |-> 0, stdout |-> <<"{", "}">>],
      [fault |-> "spawn", status |-> 0, stdout |-> <<>>],
      [fault |-> "none", status |-> 1, stdout |-> <<>>] }

JobIds == 1..Len(jobs)

InProgress == {j \in JobIds : job_state[j] \in {"buffered", "running"}}

\* buffer_unordered(n): the queue of in-progress futures has room
RoomUpToLimit(queued, limit) == queued <= limit

\* a buffer that keeps one place free
RoomButOne(queued, limit) == queued + 1 < limit

has_room(queued, limit) == queued < limit

\* the stream of job futures has no more items
ExhaustedOnFailure(nxt, total) ==
    nxt > total \/ \E i \in 1..Len(outputs) : ~outputs[i][1].ok

stream_exhausted(nxt, total) == nxt > total

\* the item the job's future resolves to:
\* (solc.async_compile(&input).await, solc, input)
ItemOfFirstJob(j, res) == <<res, jobs[1].solc, jobs[1].input>>

job_item(j, res) == <<res, jobs[j].solc, jobs[j].input>>

\* collect::<Vec<_>>(): items are pushed as the stream yields them
CollectBySubmission(out, done, j, item) ==
    LET before == {i \in 1..Len(done) : done[i] < j}
        k == Cardinality(before)
    IN  SubSeq(out, 1, k) \o <<item>> \o SubSeq(out, k + 1, Len(out))

collect_push(out, done, j, item) == Append(out, item)

InitMany ==
    /\ \E k \in 0..MaxJobs : jobs \in [1..k -> JobPairs]
    /\ n \in 0..MaxLimit
    /\ next_job = 1
    /\ job_state = [j \in JobIds |-> "queued"]
    /\ job_child = [j \in JobIds |-> NoChild]
    /\ invocations = [j \in JobIds |-> 0]
    /\ invoked = [j \in JobIds |-> Pending]
    /\ completed = <<>>
    /\ outputs = <<>>
    /\ returned = FALSE
    /\ FindIdle
    /\ InstallIdle
    /\ CompileIdle
    /\ RestIdle

\* BufferUnordered::poll_next, first loop: while the queue has room, take
\* the next future from the stream and push it
Buffer ==
    /\ ~returned
    /\ has_room(Cardinality(InProgress), n)
    /\ ~stream_exhausted(next_job, Len(jobs))
    /\ job_state' = [job_state EXCEPT ![next_job] = "buffered"]
    /\ next_job' = next_job + 1
    /\ UNCHANGED <<jobs, n, job_child, invocations, invoked, completed, outputs,
                   returned, findVars, installVars, compileVars, restVars>>

\* the queued futures are polled once the first loop has ended
Polling ==
    /\ ~returned
    /\ \/ ~has_room(Cardinality(InProgress), n)
       \/ stream_exhausted(next_job, Len(jobs))

\* a future resolved: the stream yields its item and collect pushes it
Yield(j, res) ==
    /\ job_state' = [job_state EXCEPT ![j] = "done"]
    /\ invoked' = [invoked EXCEPT ![j] = res]
    /\ completed' = Append(completed, j)
    /\ outputs' = collect_push(outputs, completed, j, job_item(j, res))

\* first poll of a job's future: async_compile is called and spawns the
\* child; a spawn failure resolves the future at once
Spawn(j, c) ==
    /\ Polling
    /\ job_state[j] = "buffered"
    /\ invocations' = [invocations EXCEPT ![j] = @ + 1]
    /\ job_child' = [job_child EXCEPT ![j] = c]
    /\ IF c.fault = "spawn"
       THEN Yield(j, async_compile(c))
       ELSE /\ job_state' = [job_state EXCEPT ![j] = "running"]
            /\ UNCHANGED <<invoked, completed, outputs>>
    /\ UNCHANGED <<jobs, n, next_job, returned, findVars, installVars, compileVars, restVars>>

\* the child of a running job exited and its future resolved
Finish(j) ==
    /\ Polling
    /\ job_state[j] = "running"
    /\ Yield(j, async_compile(job_child[j]))
    /\ UNCHANGED <<jobs, n, next_job, job_child, invocations, returned, findVars,
                   installVars, compileVars, restVars>>

\* the stream ended (no future queued, no job left): collect completes and
\* compile_many returns CompiledMany::new(outputs). The end of the job
\* stream is seen by the first loop, which polls it while there is room.
ReturnMany ==
    /\ ~returned
    /\ InProgress = {}
    /\ has_room(Cardinality(InProgress), n)
    /\ stream_exhausted(next_job, Len(jobs))
    /\ returned' = TRUE
    /\ UNCHANGED <<jobs, n, next_job, job_state, job_child, invocations, invoked,
                   completed, outputs, findVars, installVars, compileVars, restVars>>

NextMany ==
    \/ Buffer
    \/ \E j \in JobIds, c \in ManyChildren : Spawn(j, c)
    \/ \E j \in JobIds : Finish(j)
    \/ ReturnMany

SpecMany == InitMany /\ [][NextMany]_vars

\* compile_many is awaited, so the runtime keeps polling it while it can
\* make progress, and every solc child that runs exits; which handle and
\* input a job carries plays no part in the scheduling
InitManyLive ==
    /\ InitMany
    /\ \A j \in JobIds : jobs[j] = [solc |-> "solc-0.8.18", input |-> "a.sol"]

SpecManyLive ==
    /\ InitManyLive
    /\ [][NextMany]_vars
    /\ WF_vars(Buffer)
    /\ WF_vars(\E j \in JobIds, c \in ManyChildren : Spawn(j, c))
    /\ WF_vars(\E j \in JobIds : Finish(j))
    /\ WF_vars(ReturnMany)


\* ------------------------------------------------ Solc::verify_checksum
\* threads at rest, for the operations that read RELEASES and the svm home
CallersIdle ==
    /\ cfg_test = FALSE
    /\ lock = NoThread
    /\ pc = [t \in Threads |-> "idle"]
    /\ op = [t \in Threads |-> "none"]
    /\ sol_version = [t \in Threads |-> <<>>]
    /\ versions_read = [t \in Threads |-> <<>>]
    /\ local_versions = [t \in Threads |-> None]
    /\ remote_versions = [t \in Threads |-> None]
    /\ target = [t \in Threads |-> None]
    /\ svm_result = [t \in Threads |-> Pending]
    /\ report = [t \in Threads |-> <<>>]
    /\ result = [t \in Threads |-> Pending]
    /\ calls = [t \in Threads |-> 0]

\* the released versions that have a checksum, and the handle versions
ChecksumVersions == {Version(0, 7, 1, ""), Version(0, 8, 0, ""), Version(0, 8, 1, "")}

VerifyVersions == ChecksumVersions \cup {Version(0, 7, 1, "rc"), Version(0, 8, 1, "rc")}

\* contents of a binary file and the digests of the release list (one
\* byte stands for the 32 of SHA-256)
Contents == {"solc binary", "corrupted"}

Digests == {<<171>>, <<16>>}

\* sha2::Sha256 of the file content
Sha256(content) == IF content = "solc binary" THEN <<171>> ELSE <<16>>

\* alloy_primitives::hex::encode: two lowercase hex digits per byte
HexDigits == <<"0", "1", "2", "3", "4", "5", "6", "7", "8", "9", "a", "b", "c", "d", "e", "f">>

RECURSIVE hex_encode(_)
hex_encode(bytes) ==
    IF bytes = <<>> THEN <<>>
    ELSE <<HexDigits[(Head(bytes) \div 16) + 1], HexDigits[(Head(bytes) % 16) + 1]>>
         \o hex_encode(Tail(bytes))

\* Solc::version_short: the version without pre-release and build metadata
VersionUnchanged(version) == version

version_short(version) == Version(version.major, version.minor, version.patch, "")

\* svm::version_path(version) joined with solc-<version>
version_path(version) == [dir |-> version, file |-> version]

\* prior to 0.7.2 the windows binaries are not verified
V0_7_2 == Version(0, 7, 2, "")

ChecksumMismatch(version, expected, detected, file) ==
    [ok |-> FALSE, kind |-> "ChecksumMismatch", version |-> version,
     expected |-> expected, detected |-> detected, file |-> file]

verify_checksum(self, releases, sums, files, windows) ==
    LET version == version_short(self.version)
        file == version_path(version)
    IN  IF version \notin DOMAIN files THEN Err("Io", file)
        ELSE IF ~releases.ok THEN Ok(Unit)
        ELSE IF windows /\ VersionLess(version, V0_7_2) THEN Ok(Unit)
        ELSE IF version \notin DOMAIN sums
            THEN Err("ChecksumNotFound", version)
        ELSE LET checksum_calc == Sha256(files[version])
                 checksum_found == sums[version]
             IN  IF checksum_calc = checksum_found THEN Ok(Unit)
                 ELSE ChecksumMismatch(version, hex_encode(checksum_found),
                                       hex_encode(checksum_calc), file)

\* RELEASES with its checksums: loaded, or the default when loading failed
InitVerify ==
    /\ \E S \in SUBSET ChecksumVersions :
          /\ checksums \in [S -> Digests]
          /\ \/ RELEASES = ReleasesLoaded(S)
             \/ S = {} /\ RELEASES = ReleasesDefault
    /\ \E S \in SUBSET ChecksumVersions :
          /\ binaries \in [S -> Contents]
          /\ installed = S
    /\ cfg_windows \in BOOLEAN
    /\ verify_self \in {[version |-> v] : v \in VerifyVersions}
    /\ verify_result = Pending
    /\ CallersIdle
    /\ FindIdle
    /\ CompileIdle
    /\ ManyIdle
    /\ CmdIdle
    /\ ProbeIdle
    /\ TwiceIdle

VerifyChecksum ==
    /\ verify_result = Pending
    /\ verify_result' =
          verify_checksum(verify_self, RELEASES, checksums, binaries, cfg_windows)
    /\ UNCHANGED <<cfg_windows, checksums, binaries, verify_self, findVars,
                   installVars, compileVars, manyVars, cmdVars, probeVars,
                   twiceVars>>

NextVerify == VerifyChecksum

SpecVerify == InitVerify /\ [][NextVerify]_vars


\* -------------------------------------------------- Solc::configure_cmd
\* `--base-path` was introduced in 0.6.9, `--include-path` in 0.8.8
SupportsBasePathFrom068 == <<[op |-> ">=", v |-> Version(0, 6, 8, "")]>>

SUPPORTS_BASE_PATH == <<[op |-> ">=", v |-> Version(0, 6, 9, "")]>>

SUPPORTS_INCLUDE_PATH == <<[op |-> ">=", v |-> Version(0, 8, 8, "")]>>

\* the paths handles are configured with, in PathBuf order
PathOrder == <<"/lib", "/proj", "/vendor">>

Paths == {PathOrder[i] : i \in DOMAIN PathOrder}

Some(x) == [some |-> x]

\* iteration over a BTreeSet<PathBuf>: ascending
BTreeIter(set) == SelectSeq(PathOrder, LAMBDA p : p \in set)

\* the versions of the handles, around the two thresholds
CmdVersions ==
    { Version(0, 6, 8, ""), Version(0, 6, 9, "rc"), Version(0, 6, 9, ""),
      Version(0, 7, 0, "rc"), Version(0, 8, 7, ""), Version(0, 8, 8, "rc"),
      Version(0, 8, 8, ""), Version(0, 8, 9, "rc"), Version(0, 8, 9, "") }

Handles ==
    [solc : {"solc"}, version : CmdVersions,
     base_path : {None} \cup {Some(p) : p \in Paths},
     allow_paths : SUBSET {"/lib", "/proj"},
     include_paths : SUBSET Paths]

\* the arguments of a Command: flags, paths, and comma-joined path lists
Flag(name) == [flag |-> name]

PathArg(p) == [path |-> p]

Joined(seq) == [joined |-> seq]

RECURSIVE include_path_args(_, _)
include_path_args(paths, base_path) ==
    IF paths = <<>> THEN <<>>
    ELSE (IF Head(paths) # base_path
          THEN <<Flag("--include-path"), PathArg(Head(paths))>>
          ELSE <<>>)
         \o include_path_args(Tail(paths), base_path)

\* a command whose include paths do not wait for a base path
IncludePathsWithoutBasePath(self) ==
    [program |-> self.solc,
     stdin |-> "piped", stderr |-> "piped", stdout |-> "piped",
     args |-> (IF matches(SUPPORTS_INCLUDE_PATH, self.version)
               THEN include_path_args(BTreeIter(self.include_paths), "")
               ELSE <<>>)
              \o <<Flag("--standard-json")>>,
     current_dir |-> self.base_path]

configure_cmd(self) ==
    LET allow ==
            IF self.allow_paths # {}
            THEN <<Flag("--allow-paths"), Joined(BTreeIter(self.allow_paths))>>
            ELSE <<>>
        based ==
            IF self.base_path # None /\ matches(SUPPORTS_BASE_PATH, self.version)
            THEN (IF matches(SUPPORTS_INCLUDE_PATH, self.version)
                  THEN include_path_args(BTreeIter(self.include_paths),
                                         self.base_path.some)
                  ELSE <<>>)
                 \o <<Flag("--base-path"), PathArg(self.base_path.some)>>
            ELSE <<>>
    IN  [program |-> self.solc,
         stdin |-> "piped", stderr |-> "piped", stdout |-> "piped",
         args |-> allow \o based \o <<Flag("--standard-json")>>,
         current_dir |-> self.base_path]

InitCmd ==
    /\ cmd_self \in Handles
    /\ cmd = Pending
    /\ FindIdle
    /\ InstallIdle
    /\ CompileIdle
    /\ ManyIdle
    /\ VerifyIdle
    /\ ProbeIdle
    /\ TwiceIdle

ConfigureCmd ==
    /\ cmd = Pending
    /\ cmd' = configure_cmd(cmd_self)
    /\ UNCHANGED <<cmd_self, findVars, installVars, compileVars, manyVars,
                   verifyVars, probeVars, twiceVars>>

NextCmd == ConfigureCmd

SpecCmd == InitCmd /\ [][NextCmd]_vars


\* -------------------------------------------------- version_from_output
\* stdout of `solc --version` as a sequence of tokens: line feed, space,
\* the "Version: " prefix, version numbers, build metadata as solc prints
\* it, other text, a byte that is not UTF-8
ProbeTokens ==
    {"\n", " ", "Version: ", "0.8.19", "0.7.6", "+commit.Linux.g++", "solc,", "0xFF"}

ProbeOutputs ==
    [status : {0, 1}, stdout : UNION {[1..k -> ProbeTokens] : k \in 0..MaxTokens}]

\* String::from_utf8_lossy: invalid bytes become U+FFFD
from_utf8_lossy(bytes) ==
    [i \in DOMAIN bytes |-> IF bytes[i] = "0xFF" THEN "U+FFFD" ELSE bytes[i]]

\* str::lines: split at line feeds, without a final empty line
RECURSIVE lines(_)
lines(text) ==
    IF text = <<>> THEN <<>>
    ELSE LET feeds == {i \in 1..Len(text) : text[i] = "\n"}
         IN  IF feeds = {} THEN <<text>>
             ELSE LET k == CHOOSE i \in feeds : \A j \in feeds : i <= j
                  IN  <<SubSeq(text, 1, k - 1)>>
                      \o lines(SubSeq(text, k + 1, Len(text)))

\* str::trim
RECURSIVE trim(_)
trim(l) ==
    IF l = <<>> THEN l
    ELSE IF Head(l) = " " THEN trim(Tail(l))
    ELSE IF l[Len(l)] = " " THEN trim(SubSeq(l, 1, Len(l) - 1))
    ELSE l

is_empty(l) == l = <<>>

\* the first element of an iterator
FirstOf(iter) == IF iter = <<>> THEN None ELSE Some(iter[1])

\* Iterator::last
last(iter) == IF iter = <<>> THEN None ELSE Some(iter[Len(iter)])

\* str::trim_start_matches: strips the pattern as often as it leads
RECURSIVE trim_start_matches(_, _)
trim_start_matches(l, pat) ==
    IF l # <<>> /\ Head(l) = pat THEN trim_start_matches(Tail(l), pat) ELSE l

\* str::replace(".g++", ".gcc")
replace_gpp(l) ==
    [i \in DOMAIN l |->
        IF l[i] = "+commit.Linux.g++" THEN "+commit.Linux.gcc" ELSE l[i]]

\* the version numbers solc prints
Numerals == [s \in {"0.8.19", "0.7.6"} |->
                IF s = "0.8.19" THEN Version(0, 8, 19, "") ELSE Version(0, 7, 6, "")]

\* semver::Version::from_str: major.minor.patch, then optional build
\* metadata of identifiers over [0-9A-Za-z-]
Version_from_str(l) ==
    IF /\ Len(l) \in {1, 2}
       /\ l[1] \in DOMAIN Numerals
       /\ Len(l) = 2 => l[2] = "+commit.Linux.gcc"
    THEN Ok([version |-> Numerals[l[1]],
             build |-> IF Len(l) = 2 THEN "commit.Linux.gcc" ELSE ""])
    ELSE Err("SemVer", l)

version_from_output(output) ==
    IF output.status = 0
    THEN LET stdout == from_utf8_lossy(output.stdout)
             version == last(SelectSeq(lines(stdout),
                                       LAMBDA l : ~is_empty(trim(l))))
         IN  IF version = None
             THEN Err("Message", "Version not found in Solc output")
             ELSE Version_from_str(
                      replace_gpp(trim_start_matches(version.some, "Version: ")))
    ELSE Err("SolcError", output.stdout)

InitProbe ==
    /\ probe_output \in ProbeOutputs
    /\ probe_result = Pending
    /\ FindIdle
    /\ InstallIdle
    /\ CompileIdle
    /\ ManyIdle
    /\ VerifyIdle
    /\ CmdIdle
    /\ TwiceIdle

VersionFromOutput ==
    /\ probe_result = Pending
    /\ probe_result' = version_from_output(probe_output)
    /\ UNCHANGED <<probe_output, findVars, installVars, compileVars, manyVars,
                   verifyVars, cmdVars, twiceVars>>

NextProbe == VersionFromOutput

SpecProbe == InitProbe /\ [][NextProbe]_vars


\* ------------------------------------- ensure_installed, called twice
\* one caller resolves a requirement and, once the call has returned,
\* resolves the same requirement again; nothing else touches the svm home
Caller == "t1"

InitTwice == Init

FirstCall(req) ==
    /\ first_result = None
    /\ CallEnsureInstalled(Caller, req)

\* the second ensure_installed(sol_version) of the caller
CallAgain ==
    /\ pc[Caller] = "done"
    /\ op[Caller] = "ensure_installed"
    /\ first_result = None
    /\ first_result' = result[Caller]
    /\ first_report' = report[Caller]
    /\ calls' = [calls EXCEPT ![Caller] = @ + 1]
    /\ target' = [target EXCEPT ![Caller] = None]
    /\ versions_read' = [versions_read EXCEPT ![Caller] = <<>>]
    /\ local_versions' = [local_versions EXCEPT ![Caller] = None]
    /\ remote_versions' = [remote_versions EXCEPT ![Caller] = None]
    /\ svm_result' = [svm_result EXCEPT ![Caller] = Pending]
    /\ report' = [report EXCEPT ![Caller] = <<>>]
    /\ result' = [result EXCEPT ![Caller] = Pending]
    /\ pc' = [pc EXCEPT ![Caller] = IF cfg_test THEN "lock" ELSE "resolve"]
    /\ UNCHANGED <<cfg_test, RELEASES, installed, lock, op, sol_version,
                   findVars, compileVars, manyVars, verifyVars, cmdVars,
                   probeVars>>

NextTwice ==
    \/ \E req \in InstallRequirements : FirstCall(req)
    \/ TakeLock(Caller)
    \/ Resolve(Caller)
    \/ InstallStart(Caller)
    \/ SvmInstallOk(Caller)
    \/ \E msg \in InstallErrors : SvmInstallErr(Caller, msg)
    \/ Return(Caller)
    \/ CallAgain

SpecTwice == InitTwice /\ [][NextTwice]_vars

\* =================================================================
\* Properties
\* =================================================================

\* the elements of a list that satisfy a requirement
Satisfying(L, req) == {v \in SeqRange(L) : matches(req, v)}

IsMaxOf(v, S) == v \in S /\ \A w \in S : ~VersionLess(v, w)

Returned(t) == pc[t] = "done" /\ op[t] = "ensure_installed"

NothingInstalled(t) == report[t] = <<>> /\ svm_result[t] = Pending

UsesLocal(t) == result[t] = Ok(local_versions[t]) /\ NothingInstalled(t)

\* the call installed v and returned it
InstalledAndReturned(t, v) ==
    /\ svm_result[t] # Pending
    /\ svm_result[t].ok
    /\ target[t] = v
    /\ v \in installed
    /\ result[t] = Ok(v)

\* the call started one install of v; it returned v when the install
\* succeeded and the install's error when it failed
InstallAttempted(t, v) ==
    /\ svm_result[t] # Pending
    /\ target[t] = v
    /\ IF svm_result[t].ok
       THEN v \in installed /\ result[t] = Ok(v)
       ELSE result[t] = svm_result[t] /\ result[t].kind = "SvmError"

DecisionTable(t, Installs(_, _)) ==
    LET local == local_versions[t]
        remote == remote_versions[t]
    IN  /\ (local # None /\ remote = None) => UsesLocal(t)
        /\ (local # None /\ remote # None /\ VersionLess(local, remote))
              => Installs(t, remote)
        /\ (local # None /\ remote # None /\ ~VersionLess(local, remote))
              => UsesLocal(t)
        /\ (local = None /\ remote # None) => Installs(t, remote)

\* C2 as stated: a returned ensure_installed used the local match when
\* there is no remote match or the remote match is not strictly greater,
\* and otherwise installed the remote match and returned it.
C2_DecisionTableAsStated ==
    \A t \in Threads : Returned(t) => DecisionTable(t, InstalledAndReturned)

\* C2 amended: the same table, where "installs the remote version and
\* returns it" holds when the install succeeds; when the install fails the
\* call returns the install error.
C2_DecisionTable ==
    \A t \in Threads : Returned(t) => DecisionTable(t, InstallAttempted)

\* both lists match, the remote match is strictly greater, and the call
\* installed and returned it
C2_Witness ==
    \E t \in Threads :
        /\ Returned(t)
        /\ local_versions[t] # None
        /\ remote_versions[t] # None
        /\ VersionLess(local_versions[t], remote_versions[t])
        /\ InstalledAndReturned(t, remote_versions[t])

\* C3: ensure_installed fails with VersionNotFound exactly when neither
\* the installed list it read nor the release list holds a version
\* satisfying the requirement, and then it started no installation.
C3_VersionNotFoundIff ==
    \A t \in Threads : Returned(t) =>
        LET nowhere ==
                /\ Satisfying(versions_read[t], sol_version[t]) = {}
                /\ Satisfying(RELEASES.versions, sol_version[t]) = {}
        IN  /\ (result[t] = Err("VersionNotFound", "")) <=> nowhere
            /\ nowhere => NothingInstalled(t)

\* a call failed with VersionNotFound although versions are installed and
\* released
C3_Witness ==
    \E t \in Threads :
        /\ Returned(t)
        /\ result[t] = Err("VersionNotFound", "")
        /\ versions_read[t] # <<>>
        /\ RELEASES.versions # <<>>

\* C9: two installations of the same version are never in progress at the
\* same time.
C9_NoSameVersionRace ==
    \A t, u \in Threads :
        (t # u /\ pc[t] = "svm_install" /\ pc[u] = "svm_install")
            => target[t] # target[u]

\* C10: an install attempt emits the start notification first and then
\* one terminal notification: success when svm::install succeeded, error
\* with the error's message when it failed.
C10_ReportLifecycle ==
    \A t \in Threads :
        LET start == solc_installation_start(target[t])
        IN  CASE pc[t] = "svm_install" -> report[t] = <<start>>
              [] pc[t] \in {"return", "done"} /\ svm_result[t] # Pending ->
                    IF svm_result[t].ok
                    THEN report[t] = <<start, solc_installation_success(target[t])>>
                    ELSE report[t] =
                            <<start,
                              solc_installation_error(target[t], svm_result[t].msg)>>
              [] OTHER -> report[t] = <<>>

\* a blocking_install and an install both finished, one failed and one
\* succeeded
C10_Witness ==
    \E t, u \in Threads :
        /\ op[t] = "blocking_install" /\ op[u] = "install"
        /\ pc[t] = "done" /\ pc[u] = "done"
        /\ svm_result[t] # Pending /\ ~svm_result[t].ok
        /\ svm_result[u] # Pending /\ svm_result[u].ok
        /\ Len(report[t]) = 2 /\ report[t][2].kind = "error"
        /\ Len(report[u]) = 2 /\ report[u][2].kind = "success"

\* ---- blocking and async invocation
\* what a caller can tell of a result: the value, or the kind of error
SameObservation(a, b) ==
    IF a.ok /\ b.ok THEN a.value = b.value
    ELSE ~a.ok /\ ~b.ok /\ a.kind = b.kind

\* C4: for every behaviour of the child process, compile_as and
\* async_compile_as return the same value or the same kind of error.
C4_PathsEquivalent ==
    (sync_result # Pending /\ async_result # Pending)
        => SameObservation(sync_result, async_result)

\* ---- compile_many
\* the item compile_many owes job j: its own call's result, handle, input
ItemOf(j) == <<invoked[j], jobs[j].solc, jobs[j].input>>

Injective(f) == \A a, b \in DOMAIN f : a # b => f[a] # f[b]

\* C5: the number of jobs started and not finished never exceeds the
\* concurrency limit n.
C5_InFlightBounded == Cardinality(InProgress) <= n

\* n < K jobs, n of them in flight (one at least with a live child) while
\* another waits in the stream
C5_Witness ==
    /\ ~returned
    /\ n >= 2
    /\ n < Len(jobs)
    /\ Cardinality(InProgress) = n
    /\ \E j \in JobIds : job_state[j] = "running"
    /\ \E j \in JobIds : job_state[j] = "queued"

\* C6: the returned collection has one entry per submitted job, and every
\* entry carries the handle and the input of the job whose invocation
\* produced the entry's outcome; every entry collected so far is paired so.
C6_EntriesPairedWithJobs ==
    /\ \E p \in [1..Len(outputs) -> JobIds] :
          /\ Injective(p)
          /\ \A i \in 1..Len(outputs) :
                job_state[p[i]] = "done" /\ outputs[i] = ItemOf(p[i])
    /\ returned => Len(outputs) = Len(jobs)

\* a returned batch of MaxJobs jobs with distinct handles and inputs, out
\* of submission order, holding a failed and a successful entry
C6_Witness ==
    /\ returned
    /\ Len(jobs) >= 3
    /\ \E a, b \in JobIds : jobs[a].solc # jobs[b].solc
    /\ \E a, b \in JobIds : jobs[a].input # jobs[b].input
    /\ \E i, k \in 1..Len(outputs) : outputs[i][1].ok /\ ~outputs[k][1].ok
    /\ completed[1] # 1

\* C7: every job is invoked at most once at any time and exactly once by
\* the time compile_many returns; its outcome is that of its own child
\* process whatever the other jobs did, and it is in the result.
C7_EachJobRunsOnce ==
    /\ \A j \in JobIds :
          /\ invocations[j] <= 1
          /\ job_state[j] \in {"running", "done"} => invocations[j] = 1
          /\ job_state[j] = "done" => invoked[j] = async_compile(job_child[j])
    /\ returned =>
          \A j \in JobIds :
              /\ job_state[j] = "done"
              /\ invocations[j] = 1
              /\ \E i \in 1..Len(outputs) : outputs[i] = ItemOf(j)

\* the first job to complete failed, and the batch still returned with a
\* later job successful
C7_Witness ==
    /\ returned
    /\ Len(jobs) >= 3
    /\ ~invoked[completed[1]].ok
    /\ \E j \in JobIds : invoked[j].ok /\ j # completed[1]
    /\ \A j \in JobIds : invocations[j] = 1

\* C8: the entries are in the order in which the invocations completed.
C8_CompletionOrder ==
    /\ Len(outputs) = Len(completed)
    /\ \A i \in 1..Len(outputs) : outputs[i] = ItemOf(completed[i])

\* a returned batch in which a later-submitted job completed first and its
\* entry, different from the first job's, comes first
C8_Witness ==
    /\ returned
    /\ Len(jobs) >= 2
    /\ \E i, k \in 1..Len(completed) :
          /\ i < k
          /\ completed[i] > completed[k]
          /\ outputs[i] = ItemOf(completed[i])
          /\ outputs[i] # ItemOf(completed[k])

\* ---- verify_checksum
\* C11: with the release list's flag false, verify_checksum succeeds
\* whatever the state or content of the binary file.
C11_UnusableCatalogSucceeds ==
    (verify_result # Pending /\ ~RELEASES.ok) => verify_result = Ok(Unit)

\* major.minor.patch of a version
Normalized(v) == [v EXCEPT !.pre = ""]

\* the case C12 is about: usable list, readable binary, no exemption
VerifyCompared ==
    /\ verify_result # Pending
    /\ RELEASES.ok
    /\ Normalized(verify_self.version) \in DOMAIN binaries
    /\ ~(cfg_windows /\ VersionLess(Normalized(verify_self.version), V0_7_2))

\* C12: in that case the digest recorded for major.minor.patch decides:
\* no entry is ChecksumNotFound, an equal digest is success, a different
\* one is ChecksumMismatch with unequal expected and detected hex strings.
C12_ChecksumDecides ==
    VerifyCompared =>
        LET short == Normalized(verify_self.version)
        IN  IF short \notin DOMAIN checksums
            THEN verify_result = Err("ChecksumNotFound", short)
            ELSE /\ (verify_result = Ok(Unit))
                        <=> (Sha256(binaries[short]) = checksums[short])
                 /\ ~verify_result.ok =>
                        /\ verify_result.kind = "ChecksumMismatch"
                        /\ verify_result.expected # verify_result.detected
                        /\ verify_result.expected = hex_encode(checksums[short])
                        /\ verify_result.detected = hex_encode(Sha256(binaries[short]))

\* a pre-release handle whose corrupted binary was checked against the
\* digest recorded for its major.minor.patch
C12_Witness ==
    /\ VerifyCompared
    /\ verify_self.version.pre # ""
    /\ binaries[Normalized(verify_self.version)] = "corrupted"
    /\ verify_result # Pending
    /\ ~verify_result.ok
    /\ verify_result.kind = "ChecksumMismatch"
    /\ verify_result.expected = <<"a", "b">>
    /\ verify_result.detected = <<"1", "0">>

\* ---- configure_cmd
\* the values following each occurrence of a flag in the arguments
ValuesOf(args, name) ==
    [i \in 1..Cardinality({k \in 1..Len(args) : args[k] = Flag(name)}) |->
        LET at == {k \in 1..Len(args) : args[k] = Flag(name)}
            k == CHOOSE k \in at : Cardinality({m \in at : m <= k}) = i
        IN  args[k + 1]]

Built == cmd # Pending /\ cmd_self.base_path # None

V0_6_9 == Version(0, 6, 9, "")

V0_8_8 == Version(0, 8, 8, "")

\* C13: with a base path and a version below 0.6.9 the command has no
\* --base-path and no --include-path argument, and its working directory
\* is the base path.
C13_OldVersionNoPathFlags ==
    (Built /\ VersionLess(cmd_self.version, V0_6_9)) =>
        /\ ValuesOf(cmd.args, "--base-path") = <<>>
        /\ ValuesOf(cmd.args, "--include-path") = <<>>
        /\ cmd.current_dir = cmd_self.base_path

\* a handle below 0.6.9 with include paths other than its base path
C13_Witness ==
    /\ Built
    /\ VersionLess(cmd_self.version, V0_6_9)
    /\ \E p \in cmd_self.include_paths : Some(p) # cmd_self.base_path
    /\ cmd.current_dir = cmd_self.base_path
    /\ \A i \in 1..Len(cmd.args) :
          cmd.args[i] \notin {Flag("--base-path"), Flag("--include-path")}

\* C14: with a base path and a version in [0.6.9, 0.8.8) the command has
\* exactly one --base-path argument carrying the base path and no
\* --include-path argument. Stated for the handles whose version and
\* whose major.minor.patch triple are both in the range.
C14_OnlyBasePath ==
    (/\ Built
     /\ ~VersionLess(cmd_self.version, V0_6_9)
     /\ VersionLess(cmd_self.version, V0_8_8)
     /\ VersionLess(Normalized(cmd_self.version), V0_8_8)) =>
        /\ ValuesOf(cmd.args, "--base-path") = <<PathArg(cmd_self.base_path.some)>>
        /\ ValuesOf(cmd.args, "--include-path") = <<>>

\* C15: with a base path and a version >= 0.8.8 the command has one
\* --include-path argument for every include path that differs from the
\* base path and none for the base path.
C15_IncludePathsButBase ==
    (Built /\ ~VersionLess(cmd_self.version, V0_8_8)) =>
        ValuesOf(cmd.args, "--include-path") =
            SelectSeq([i \in DOMAIN PathOrder |-> PathArg(PathOrder[i])],
                      LAMBDA a : /\ a.path \in cmd_self.include_paths
                                 /\ Some(a.path) # cmd_self.base_path)

\* C16: a handle is gated by its major.minor.patch triple: the command
\* built for it is the one built for the same handle without pre-release.
C16_GatedByNormalizedVersion ==
    cmd # Pending =>
        cmd.args = configure_cmd([cmd_self EXCEPT !.version = Normalized(@)]).args

\* ---- invocation engine: error kinds
HasInvalidByte(bytes) == \E i \in 1..Len(bytes) : bytes[i] = "0xFF"

SyncDecoded == sync_result # Pending /\ sync_output.ok

\* C17: the blocking compile_as reports stdout that is not valid UTF-8
\* as InvalidUtf8 and stdout that is valid UTF-8 but not the expected JSON
\* as a deserialization error, never the two as the same kind.
C17_Utf8BeforeJson ==
    SyncDecoded =>
        /\ HasInvalidByte(sync_output.value) =>
              (~sync_result.ok /\ sync_result.kind = "InvalidUtf8")
        /\ (~HasInvalidByte(sync_output.value)
              /\ ~IsExpectedJson(sync_output.value)) =>
              (~sync_result.ok /\ sync_result.kind = "SerdeJson")

\* stdout with an invalid byte was decoded
C17_Witness ==
    /\ SyncDecoded
    /\ HasInvalidByte(sync_output.value)
    /\ Len(sync_output.value) = 2
    /\ sync_result = Err("InvalidUtf8", "")

\* the child was spawned, fed and waited for
ChildCompleted == child.fault = "none"

ByExitStatus(output) ==
    IF child.status = 0 THEN output = Ok(child.stdout)
    ELSE ~output.ok /\ output.kind = "SolcError"

\* C18: for a completed child the result of the invocation is decided by
\* the exit status first: non-zero gives the invocation-failed error
\* whatever stdout holds, zero gives exactly the captured stdout bytes.
C18_ExitStatusFirst ==
    /\ (sync_output # Pending /\ ChildCompleted) => ByExitStatus(sync_output)
    /\ (async_output # Pending /\ ChildCompleted) => ByExitStatus(async_output)

\* a child that printed the expected JSON and exited non-zero, run on
\* both paths
C18_Witness ==
    /\ ChildCompleted
    /\ child.status = 1
    /\ IsExpectedJson(child.stdout)
    /\ sync_output # Pending /\ ~sync_output.ok
    /\ async_output # Pending /\ ~async_output.ok

\* ---- version probing
Probed == probe_result # Pending

Blank(tok) == tok \in {"\n", " "}

\* stdout[i..j] is the last line with a token that is not a space
LastLine(out, i, j) ==
    /\ i <= j
    /\ i = 1 \/ out[i - 1] = "\n"
    /\ \A k \in i..j : out[k] # "\n"
    /\ \E k \in i..j : out[k] # " "
    /\ j = Len(out) \/ out[j + 1] = "\n"
    /\ \A k \in (j + 1)..Len(out) : Blank(out[k])

\* what the line stands for: any number of "Version: " prefixes, then a
\* version number, then optionally the build metadata
ParsedLine(l) ==
    LET k == CHOOSE k \in 0..Len(l) :
                 /\ \A m \in 1..k : l[m] = "Version: "
                 /\ k < Len(l) => l[k + 1] # "Version: "
        body == SubSeq(l, k + 1, Len(l))
        number(s) == IF s = "0.8.19" THEN Version(0, 8, 19, "")
                     ELSE Version(0, 7, 6, "")
    IN  IF body \in {<<"0.8.19">>, <<"0.7.6">>}
        THEN Ok([version |-> number(body[1]), build |-> ""])
        ELSE IF body \in {<<"0.8.19", "+commit.Linux.g++">>,
                          <<"0.7.6", "+commit.Linux.g++">>}
        THEN Ok([version |-> number(body[1]), build |-> "commit.Linux.gcc"])
        ELSE Err("SemVer", "")

\* C19: on a zero exit status the probe parses the last stdout line that
\* is non-blank after trimming, whatever the earlier lines and the
\* trailing blank lines are, after stripping "Version: " and rewriting
\* ".g++" to ".gcc"; it returns an error when every line is blank, when
\* the line does not parse and when the exit status is non-zero.
C19_LastNonBlankLine ==
    Probed =>
        LET out == probe_output.stdout
        IN  /\ probe_output.status # 0 => ~probe_result.ok
            /\ (probe_output.status = 0 /\ \A k \in 1..Len(out) : Blank(out[k]))
                  => ~probe_result.ok
            /\ probe_output.status = 0 =>
                  \A i, j \in 1..Len(out) :
                      LastLine(out, i, j) =>
                          LET expected == ParsedLine(SubSeq(out, i, j))
                          IN  IF expected.ok THEN probe_result = expected
                              ELSE ~probe_result.ok

\* an earlier version line, then the prefixed version line, then a
\* blank line
C19_Witness ==
    /\ Probed
    /\ probe_output =
          [status |-> 0, stdout |-> <<"0.7.6", "\n", "Version: ", "0.8.19", "\n">>]
    /\ probe_result = Ok([version |-> Version(0, 8, 19, ""), build |-> ""])

\* ---- resolving twice
SecondReturned == first_result # None /\ pc[Caller] = "done"

\* C20 as stated: the second of two consecutive ensure_installed calls
\* with the same requirement returns what the first returned.
C20_SameResultTwice == SecondReturned => result[Caller] = first_result

\* C20: when the first call returned a version, or VersionNotFound, the
\* second call returns the same; a first call whose installation failed
\* is retried by the second.
C20_SameVersionTwice ==
    (/\ SecondReturned
     /\ first_result.ok \/ first_result.kind = "VersionNotFound") =>
        result[Caller] = first_result

\* the first call installed the version, the second found it installed
C20_Witness ==
    /\ SecondReturned
    /\ first_result.ok
    /\ first_report # <<>>
    /\ result[Caller] = first_result
    /\ local_versions[Caller] = first_result.value
    /\ report[Caller] = <<>>

\* ---- ensure_installed: catalog, install attempts, returned version
Resolving(t) == op[t] = "ensure_installed"

\* C21: when the release list failed to load, ensure_installed starts no
\* installation and returns the greatest installed version satisfying
\* the requirement, or VersionNotFound when none does.
C21_UnusableCatalogLocalOnly ==
    ~RELEASES.ok =>
        \A t \in Threads : Resolving(t) =>
            /\ pc[t] \notin {"install", "svm_install"}
            /\ report[t] = <<>>
            /\ svm_result[t] = Pending
            /\ pc[t] = "done" =>
                  LET sat == Satisfying(versions_read[t], sol_version[t])
                  IN  IF sat = {} THEN result[t] = Err("VersionNotFound", "")
                      ELSE result[t].ok /\ IsMaxOf(result[t].value, sat)

\* with an unusable release list a call returned the greatest of two
\* satisfying installed versions
C21_Witness ==
    /\ ~RELEASES.ok
    /\ \E t \in Threads :
          /\ Resolving(t) /\ pc[t] = "done"
          /\ Cardinality(Satisfying(versions_read[t], sol_version[t])) >= 2
          /\ result[t].ok
          /\ IsMaxOf(result[t].value, Satisfying(versions_read[t], sol_version[t]))

Starts(t) == {i \in 1..Len(report[t]) : report[t][i].kind = "start"}

\* C22: a call of ensure_installed starts at most one installation; when
\* it fails the call returns the install error, also when an installed
\* version satisfies the requirement.
C22_OneAttemptNoFallback ==
    \A t \in Threads : Resolving(t) =>
        /\ Cardinality(Starts(t)) <= 1
        /\ (pc[t] = "done" /\ svm_result[t] # Pending /\ ~svm_result[t].ok) =>
              /\ result[t] = svm_result[t]
              /\ result[t].kind = "SvmError"

\* a call with an installed match whose one install failed returned the
\* install error
C22_Witness ==
    \E t \in Threads :
        /\ Resolving(t) /\ pc[t] = "done"
        /\ local_versions[t] # None
        /\ svm_result[t] # Pending /\ ~svm_result[t].ok
        /\ Cardinality(Starts(t)) = 1
        /\ result[t] = svm_result[t]

\* C23: a version ensure_installed returns satisfies the requirement, is
\* installed when the call returns, and is not below any version
\* satisfying the requirement among the installed versions the call read
\* and the release list.
C23_ReturnedVersionIsBest ==
    \A t \in Threads : (Resolving(t) /\ pc[t] = "done" /\ result[t].ok) =>
        LET v == result[t].value
        IN  /\ matches(sol_version[t], v)
            /\ v \in installed
            /\ \A w \in Satisfying(versions_read[t], sol_version[t]) :
                  ~VersionLess(v, w)
            /\ \A w \in Satisfying(RELEASES.versions, sol_version[t]) :
                  ~VersionLess(v, w)

\* a call returned an installed version although the release list holds
\* satisfying versions, none of them greater
C23_Witness ==
    \E t \in Threads :
        /\ Resolving(t) /\ pc[t] = "done" /\ result[t].ok
        /\ report[t] = <<>>
        /\ Cardinality(Satisfying(versions_read[t], sol_version[t])) >= 2
        /\ Satisfying(RELEASES.versions, sol_version[t]) # {}
        /\ result[t].value \in installed

\* ---- configure_cmd without a base path
PathFlags == {Flag("--allow-paths"), Flag("--include-path"), Flag("--base-path")}

\* C24: without a base path the command has no --include-path and no
\* --base-path argument and no working directory, whatever the version
\* and the include paths; in every command --standard-json is the last
\* argument, after the --allow-paths, --include-path and --base-path
\* arguments.
C24_NoBasePathNoPathFlags ==
    cmd # Pending =>
        /\ cmd_self.base_path = None =>
              /\ \A i \in 1..Len(cmd.args) :
                    cmd.args[i] \notin {Flag("--include-path"), Flag("--base-path")}
              /\ cmd.current_dir = None
        /\ Len(cmd.args) >= 1
        /\ cmd.args[Len(cmd.args)] = Flag("--standard-json")
        /\ \A i \in 1..(Len(cmd.args) - 1) : cmd.args[i] # Flag("--standard-json")

\* a handle of a version >= 0.8.8 with include paths and allowed paths
\* and no base path
C24_Witness ==
    /\ cmd # Pending
    /\ cmd_self.base_path = None
    /\ ~VersionLess(cmd_self.version, V0_8_8)
    /\ cmd_self.version.pre = ""
    /\ Cardinality(cmd_self.include_paths) >= 2
    /\ cmd_self.allow_paths # {}
    /\ Len(cmd.args) = 3
    /\ cmd.args[3] = Flag("--standard-json")
    /\ cmd.current_dir = None

\* ---- compile_many: termination
Unstarted == next_job <= Len(jobs)

\* C25: with a concurrency limit n >= 1 and solc children that all
\* exit, every job is eventually started and compile_many eventually
\* returns; while unstarted jobs remain and fewer than n are in flight,
\* another job is started.
C25_CompileManyTerminates ==
    /\ (n >= 1) ~> returned
    /\ \A j \in 1..MaxJobs :
          (n >= 1 /\ j <= Len(jobs)) ~> (j <= Len(jobs) /\ invocations[j] = 1)
    /\ \A k \in 1..MaxJobs :
          (~returned /\ Unstarted /\ next_job = k /\ Cardinality(InProgress) < n)
              ~> (next_job > k)

\* a batch of more jobs than the limit returned with every job started
C25_Witness ==
    /\ returned
    /\ n >= 1
    /\ Len(jobs) > n
    /\ \A j \in JobIds : invocations[j] = 1
    /\ Len(outputs) = Len(jobs)

====
